---- MODULE Spec2Model ----
(***************************************************************************)
(* MUdM Videos API (src/main.py): a read-only FastAPI service over the     *)
(* relations video, pdf and pdf_video.  The database is fixed after Init   *)
(* (the service never writes); a request is received, validated at the     *)
(* FastAPI boundary, handled by its endpoint function and sent back.       *)
(*                                                                         *)
(* Text values (names, search strings, difficulty labels) are sequences of *)
(* one-character strings, so that ILIKE, strip() and ORDER BY are computed *)
(* character by character.  SQL statements are sequences of tokens in      *)
(* which "%s" is a placeholder, bound positionally to the parameter list,  *)
(* as psycopg binds them.                                                  *)
(***************************************************************************)
EXTENDS Integers, Sequences, FiniteSets, TLC

VARIABLES
    video,      \* table video:     id -> [nom, created_at]
    pdf,        \* table pdf:       id -> [nom, difficulte]
    pdf_video,  \* table pdf_video: set of [id_pdf, id_video]
    pc,         \* position of the request in flight
    req,        \* the request in flight
    resp,       \* the response of the request in flight
    rows,       \* cur.fetchall() of the page statement, before VideoOut(**r)
    dbLog,      \* statements executed for the request in flight, with parameters
    conns,      \* pool.connection() acquisitions for the request in flight
    walk        \* a client fetching consecutive pages (offset 0, L, 2L, ...)

vars == <<video, pdf, pdf_video, pc, req, resp, rows, dbLog, conns, walk>>

----------------------------------------------------------------------------
(* Bounds of the model *)

NVideos == 2
NPdfs == 2
MaxStamp == 2
OrderVideos == 3
CataloguePdfs == 4
MaxNameLen == 2
MaxQLen == 2
WalkVideos == 3

(* Program constants *)

LimitMin == 1
LimitMax == 200
LimitDefault == 50
OffsetMin == 0
OffsetDefault == 0

----------------------------------------------------------------------------
(* Values *)

\* SQL NULL / Python None for a text value: a value that is no text.
NULL == <<"NULL">>
\* created_at IS NULL; timestamps are 1..MaxStamp.
NoStamp == 0

Alphabet == {"a", "A", "b", "_", "%", "\\", " "}
Whitespace == {" "}

Facile == <<"F">>
Difficile == <<"D">>
Empty == <<>>
Labels == {Empty, Difficile, Facile}

Range(s) == {s[i] : i \in 1..Len(s)}
Min(a, b) == IF a < b THEN a ELSE b
TextsUpTo(n) == UNION {[1..k -> Alphabet] : k \in 0..n}
Perms(S) == {s \in [1..Cardinality(S) -> S] : \A i, j \in 1..Cardinality(S) : i # j => s[i] # s[j]}

\* Collation rank of a character (ORDER BY on text).
CharRank(c) ==
    CASE c = " " -> 0 [] c = "%" -> 1 [] c = "D" -> 2 [] c = "F" -> 3
      [] c = "\\" -> 4 [] c = "_" -> 5 [] c = "a" -> 6 [] c = "A" -> 7
      [] c = "b" -> 8 [] OTHER -> 9

RECURSIVE TextLess(_, _)
TextLess(a, b) ==
    IF b = <<>> THEN FALSE
    ELSE IF a = <<>> THEN TRUE
    ELSE IF CharRank(Head(a)) # CharRank(Head(b)) THEN CharRank(Head(a)) < CharRank(Head(b))
    ELSE TextLess(Tail(a), Tail(b))

\* Case folding of ILIKE.
Lower(c) == CASE c = "A" -> "a" [] c = "B" -> "b" [] OTHER -> c

\* str.strip(): leading and trailing whitespace removed.
RECURSIVE LStrip(_)
LStrip(s) == IF s # <<>> /\ Head(s) \in Whitespace THEN LStrip(Tail(s)) ELSE s
RECURSIVE RStrip(_)
RStrip(s) ==
    IF s # <<>> /\ s[Len(s)] \in Whitespace THEN RStrip(SubSeq(s, 1, Len(s) - 1)) ELSE s
Strip(s) == RStrip(LStrip(s))

\* text ILIKE pattern, from position i of the text and j of the pattern:
\* % matches any run, _ any one character, \ takes the next character literally.
RECURSIVE LikeFrom(_, _, _, _)
LikeFrom(s, i, p, j) ==
    IF j > Len(p) THEN i > Len(s)
    ELSE IF p[j] = "%" THEN
        LikeFrom(s, i, p, j + 1) \/ (i <= Len(s) /\ LikeFrom(s, i + 1, p, j))
    ELSE IF p[j] = "_" THEN
        i <= Len(s) /\ LikeFrom(s, i + 1, p, j + 1)
    ELSE IF p[j] = "\\" /\ j < Len(p) THEN
        i <= Len(s) /\ Lower(s[i]) = Lower(p[j + 1]) /\ LikeFrom(s, i + 1, p, j + 2)
    ELSE
        i <= Len(s) /\ Lower(s[i]) = Lower(p[j]) /\ LikeFrom(s, i + 1, p, j + 1)

ILike(s, p) == LikeFrom(s, 1, p, 1)

----------------------------------------------------------------------------
(* _where: the WHERE clause and its parameters *)

NameClause == <<"v.nom ILIKE", "%s">>
ExistsOpen == "EXISTS (SELECT 1 FROM pdf_video pv2 JOIN pdf p2 ON pv2.id_pdf = p2.id WHERE pv2.id_video = v.id AND p2.difficulte IN ("
ExistsClose == "))"

\* ",".join(["%s"] * n)
RECURSIVE Placeholders(_)
Placeholders(n) ==
    IF n <= 0 THEN <<>>
    ELSE IF n = 1 THEN <<"%s">>
    ELSE Placeholders(n - 1) \o <<",", "%s">>

\* " AND ".join(clauses)
RECURSIVE JoinAnd(_)
JoinAnd(clauses) ==
    IF clauses = <<>> THEN <<>>
    ELSE IF Len(clauses) = 1 THEN clauses[1]
    ELSE clauses[1] \o <<"AND">> \o JoinAnd(Tail(clauses))

\* f"%{q}%"
Pattern(q) == <<"%">> \o q \o <<"%">>

RECURSIVE Reverse(_)
Reverse(s) == IF s = <<>> THEN <<>> ELSE Reverse(Tail(s)) \o <<Head(s)>>

_where_reversed(q, diffs) ==
    LET c1 == IF q # <<>> THEN <<NameClause>> ELSE <<>>
        p1 == IF q # <<>> THEN <<Pattern(q)>> ELSE <<>>
        c2 == IF diffs # <<>>
              THEN << <<ExistsOpen>> \o Placeholders(Len(diffs)) \o <<ExistsClose>> >>
              ELSE <<>>
        p2 == IF diffs # <<>> THEN Reverse(diffs) ELSE <<>>
        clauses == c1 \o c2
        params == p1 \o p2
    IN  IF clauses # <<>>
        THEN [sql |-> <<"WHERE">> \o JoinAnd(clauses), params |-> params]
        ELSE [sql |-> <<>>, params |-> params]

_where(q, diffs) ==
    LET c1 == IF q # <<>> THEN <<NameClause>> ELSE <<>>
        p1 == IF q # <<>> THEN <<Pattern(q)>> ELSE <<>>
        c2 == IF diffs # <<>>
              THEN << <<ExistsOpen>> \o Placeholders(Len(diffs)) \o <<ExistsClose>> >>
              ELSE <<>>
        p2 == IF diffs # <<>> THEN diffs ELSE <<>>
        clauses == c1 \o c2
        params == p1 \o p2
    IN  IF clauses # <<>>
        THEN [sql |-> <<"WHERE">> \o JoinAnd(clauses), params |-> params]
        ELSE [sql |-> <<>>, params |-> params]

----------------------------------------------------------------------------
(* The database: how PostgreSQL evaluates the statements the service sends *)

\* p.id of a joined row that the LEFT JOIN left unmatched.
NoPdf == 0

CountSelect == "SELECT COUNT(*) FROM video v"
BASE_SELECT == "SELECT v.id, v.nom, v.url, v.thumbnail, v.created_at, difficulties, pdfs FROM video v LEFT JOIN pdf_video pv ON v.id = pv.id_video LEFT JOIN pdf p ON pv.id_pdf = p.id"
GroupBy == "GROUP BY v.id"
OrderBy == "ORDER BY v.created_at"
NullsLast == "NULLS LAST"

\* FROM video v LEFT JOIN pdf_video pv ON v.id = pv.id_video LEFT JOIN pdf p ON pv.id_pdf = p.id,
\* the rows of one video.
LeftJoin(v) ==
    LET linked == {l \in pdf_video : l.id_video = v /\ l.id_pdf \in DOMAIN pdf}
    IN  IF linked = {} THEN {[v |-> v, p |-> NoPdf]}
        ELSE {[v |-> v, p |-> l.id_pdf] : l \in linked}

\* A column of p in a joined row: NULL where the join found no pdf.
PdfCol(r, col) == IF r.p = NoPdf THEN NULL ELSE pdf[r.p][col]

\* FILTER (WHERE p.id IS NOT NULL)
NoFilterPdf(rs) == rs

FilterPdf(rs) == {r \in rs : r.p # NoPdf}

\* array_agg(DISTINCT p.difficulte): NULL over no rows; a NULL input is an element.
ArrayAggDifficulte(rs) ==
    IF rs = {} THEN [isnull |-> TRUE, val |-> {}]
    ELSE [isnull |-> FALSE, val |-> {PdfCol(r, "difficulte") : r \in rs}]

\* json_agg(DISTINCT jsonb_build_object('nom', p.nom, ..., 'difficulte', p.difficulte))
\* (path, gpx and couleur_uniforme are carried like nom and are left out).
JsonAggPdf(rs) ==
    IF rs = {} THEN [isnull |-> TRUE, val |-> {}]
    ELSE [isnull |-> FALSE,
          val |-> {[nom |-> PdfCol(r, "nom"), difficulte |-> PdfCol(r, "difficulte")] : r \in rs}]

\* COALESCE(x, d)
Coalesce(x, d) == IF x.isnull THEN [isnull |-> FALSE, val |-> d] ELSE x

\* One row of BASE_SELECT ... GROUP BY v.id
Row(v) ==
    [id |-> v,
     nom |-> video[v].nom,
     created_at |-> video[v].created_at,
     difficulties |-> Coalesce(ArrayAggDifficulte(FilterPdf(LeftJoin(v))), {}),
     pdfs |-> Coalesce(JsonAggPdf(FilterPdf(LeftJoin(v))), {})]

\* The rows of the FROM clause of a count statement.
FromRows(select) ==
    IF select = CountSelect THEN {[v |-> v, p |-> NoPdf] : v \in DOMAIN video}
    ELSE UNION {LeftJoin(v) : v \in DOMAIN video}

\* The number of the placeholder at position pos of a statement.
PlaceholderIndex(sql, pos) == Cardinality({i \in 1..pos : sql[i] = "%s"})
NumPlaceholders(sql) == PlaceholderIndex(sql, Len(sql))

\* EXISTS (SELECT 1 FROM pdf_video pv2 JOIN pdf p2 ON pv2.id_pdf = p2.id
\*         WHERE pv2.id_video = v.id AND p2.difficulte IN (listed));
\* a NULL difficulte is IN no list.
ExistsListedUncorrelated(v, listed) ==
    \E l \in pdf_video :
        /\ l.id_pdf \in DOMAIN pdf
        /\ pdf[l.id_pdf].difficulte # NULL
        /\ pdf[l.id_pdf].difficulte \in listed

ExistsListed(v, listed) ==
    \E l \in pdf_video :
        /\ l.id_video = v
        /\ l.id_pdf \in DOMAIN pdf
        /\ pdf[l.id_pdf].difficulte # NULL
        /\ pdf[l.id_pdf].difficulte \in listed

\* The WHERE clause of a statement for video v, read from token i with the
\* parameters from k on bound to its placeholders in order.
RECURSIVE EvalWhere(_, _, _, _, _)
EvalWhere(sql, params, v, i, k) ==
    IF i > Len(sql) \/ sql[i] = GroupBy THEN TRUE
    ELSE IF sql[i] = NameClause[1] THEN
        /\ ILike(video[v].nom, params[k])
        /\ EvalWhere(sql, params, v, i + 2, k + 1)
    ELSE IF sql[i] = ExistsOpen THEN
        LET close == CHOOSE c \in i..Len(sql) :
                        sql[c] = ExistsClose /\ \A d \in i..(c - 1) : sql[d] # ExistsClose
            n == Cardinality({j \in i..close : sql[j] = "%s"})
            listed == {params[k + m - 1] : m \in 1..n}
        IN  /\ ExistsListed(v, listed)
            /\ EvalWhere(sql, params, v, close + 1, k + n)
    ELSE EvalWhere(sql, params, v, i + 1, k)

\* cur.execute(total_sql, params); cur.fetchone()["count"]
ExecCount(stmt) ==
    Cardinality({r \in FromRows(stmt.sql[1]) : EvalWhere(stmt.sql, stmt.params, r.v, 1, 1)})

\* a sorts strictly before b under ORDER BY v.created_at dir [NULLS LAST].
\* Without NULLS LAST a null sorts as larger than every value.
Precedes(a, b, dir, nullsLast) ==
    LET ta == video[a].created_at
        tb == video[b].created_at
        last == nullsLast \/ dir = "ASC"
    IN  IF ta = NoStamp /\ tb = NoStamp THEN FALSE
        ELSE IF ta = NoStamp THEN ~last
        ELSE IF tb = NoStamp THEN last
        ELSE IF dir = "DESC" THEN ta > tb
        ELSE ta < tb

TokenAfter(sql, tok) == sql[(CHOOSE i \in 1..Len(sql) : sql[i] = tok) + 1]
ParamAfter(stmt, tok) ==
    stmt.params[PlaceholderIndex(stmt.sql, (CHOOSE i \in 1..Len(stmt.sql) : stmt.sql[i] = tok) + 1)]

\* The orders in which the database may produce the grouped rows: every order
\* that agrees with the ORDER BY; rows that tie are in no specified order.
Orderings(ids, dir, nullsLast) ==
    {s \in Perms(ids) :
        \A i, j \in 1..Len(s) : i < j => ~Precedes(s[j], s[i], dir, nullsLast)}

\* cur.execute(page_sql, [*params, limit, offset]); cur.fetchall():
\* the results the database may return.
ExecPage(stmt) ==
    LET ids == {v \in DOMAIN video : EvalWhere(stmt.sql, stmt.params, v, 1, 1)}
        dir == TokenAfter(stmt.sql, OrderBy)
        nullsLast == NullsLast \in Range(stmt.sql)
        limit == ParamAfter(stmt, "LIMIT")
        offset == ParamAfter(stmt, "OFFSET")
    IN  {[i \in 1..Len(page) |-> Row(page[i])] :
            page \in {SubSeq(s, offset + 1, Min(offset + limit, Len(s))) :
                        s \in Orderings(ids, dir, nullsLast)}}

----------------------------------------------------------------------------
(* Requests and responses *)

NoReq == [route |-> "", q |-> <<>>, diff |-> <<>>,
          limit |-> LimitDefault, offset |-> OffsetDefault, order |-> "desc"]
HealthReq == [NoReq EXCEPT !.route = "/health"]
DifficultiesReq == [NoReq EXCEPT !.route = "/difficulties"]
VideosReqs(Qs, Diffs, Limits, Offsets, Orders) ==
    [route : {"/videos"}, q : Qs, diff : Diffs, limit : Limits, offset : Offsets, order : Orders]

NoResp == [status |-> 0, total |-> 0, items |-> <<>>, body |-> <<>>]
NoWalk == [phase |-> "none", base |-> NoReq, next |-> 0, acc |-> <<>>, prev |-> <<>>]

\* Query(50, ge=1, le=200), Query(0, ge=0), Query("desc", pattern="^(asc|desc)$")
ValidLimitNoUpper(n) == LimitMin <= n
ValidLimit(n) == LimitMin <= n /\ n <= LimitMax
ValidOffset(n) == OffsetMin <= n
ValidOrder(o) == o \in {"asc", "desc"}
Valid(r) == ValidLimit(r.limit) /\ ValidOffset(r.offset) /\ ValidOrder(r.order)

\* VideoOut(**r): difficulties: List[str], pdfs: List[Dict[str, Any]]
ValidVideoOut(r) ==
    /\ ~r.difficulties.isnull
    /\ NULL \notin r.difficulties.val
    /\ ~r.pdfs.isnull

----------------------------------------------------------------------------
(* The endpoints *)

\* A request arrives; nothing has run for it yet.
Receive(r) ==
    /\ pc = "idle"
    /\ walk.phase # "walking"
    /\ pc' = "received"
    /\ req' = r
    /\ resp' = NoResp
    /\ rows' = <<>>
    /\ dbLog' = <<>>
    /\ conns' = 0
    /\ UNCHANGED <<video, pdf, pdf_video, walk>>

\* FastAPI checks the Query constraints before it calls list_videos.
Reject ==
    /\ pc = "received"
    /\ req.route = "/videos"
    /\ ~Valid(req)
    /\ resp' = [NoResp EXCEPT !.status = 422]
    /\ pc' = "responded"
    /\ UNCHANGED <<video, pdf, pdf_video, req, rows, dbLog, conns, walk>>

order_sql(order) == IF order = "desc" THEN "DESC" ELSE "ASC"
total_sql_joined(where_sql) == <<"SELECT COUNT(*) FROM video v LEFT JOIN pdf_video pv ON v.id = pv.id_video">> \o where_sql
total_sql(where_sql) == <<CountSelect>> \o where_sql
page_sql_default_nulls(where_sql, order) ==
    <<BASE_SELECT>> \o where_sql
        \o <<GroupBy, OrderBy, order_sql(order), "LIMIT", "%s", "OFFSET", "%s">>
page_sql(where_sql, order) ==
    <<BASE_SELECT>> \o where_sql
        \o <<GroupBy, OrderBy, order_sql(order), NullsLast, "LIMIT", "%s", "OFFSET", "%s">>
page_params(params, limit, offset) == params \o <<limit, offset>>

list_videos ==
    /\ pc = "received"
    /\ req.route = "/videos"
    /\ Valid(req)
    /\ LET w == _where(Strip(req.q), req.diff)
           total_stmt == [sql |-> total_sql(w.sql), params |-> w.params]
           page_stmt == [sql |-> page_sql(w.sql, req.order),
                         params |-> page_params(w.params, req.limit, req.offset)]
           total == ExecCount(total_stmt)
       IN  \E fetched \in ExecPage(page_stmt) :
            /\ conns' = conns + 1
            /\ dbLog' = <<total_stmt, page_stmt>>
            /\ rows' = fetched
            /\ resp' = IF \A i \in 1..Len(fetched) : ValidVideoOut(fetched[i])
                       THEN [NoResp EXCEPT !.status = 200, !.total = total, !.items = fetched]
                       ELSE [NoResp EXCEPT !.status = 500]
    /\ pc' = "responded"
    /\ UNCHANGED <<video, pdf, pdf_video, req, walk>>

DifficultiesSql == "SELECT COALESCE(p.difficulte,'') AS d, COUNT(*) AS n FROM pdf p GROUP BY d ORDER BY d;"

\* COALESCE(p.difficulte, '') AS d
DifficulteRaw(p) == pdf[p].difficulte
DifficulteOrEmpty(p) == IF pdf[p].difficulte = NULL THEN Empty ELSE pdf[p].difficulte

\* GROUP BY d ORDER BY d, with COUNT(*) AS n
ExecDifficulties ==
    LET ds == {DifficulteOrEmpty(p) : p \in DOMAIN pdf}
        sorted == CHOOSE s \in Perms(ds) : \A i, j \in 1..Len(s) : i < j => TextLess(s[i], s[j])
    IN  [i \in 1..Len(sorted) |->
            [d |-> sorted[i],
             n |-> Cardinality({p \in DOMAIN pdf : DifficulteOrEmpty(p) = sorted[i]})]]

list_difficulties ==
    /\ pc = "received"
    /\ req.route = "/difficulties"
    /\ LET fetched == ExecDifficulties
       IN  resp' = [NoResp EXCEPT
                      !.status = 200,
                      !.body = [i \in 1..Len(fetched) |->
                                  [difficulte |-> fetched[i].d, count |-> fetched[i].n]]]
    /\ conns' = conns + 1
    /\ dbLog' = <<[sql |-> <<DifficultiesSql>>, params |-> <<>>]>>
    /\ pc' = "responded"
    /\ UNCHANGED <<video, pdf, pdf_video, req, rows, walk>>

health ==
    /\ pc = "received"
    /\ req.route = "/health"
    /\ conns' = conns + 1
    /\ dbLog' = <<[sql |-> <<"SELECT 1;">>, params |-> <<>>]>>
    /\ resp' = [NoResp EXCEPT !.status = 200, !.body = <<[ok |-> TRUE]>>]
    /\ pc' = "responded"
    /\ UNCHANGED <<video, pdf, pdf_video, req, rows, walk>>

----------------------------------------------------------------------------
(* A client that reads the whole result page by page *)

Ids(items) == [i \in 1..Len(items) |-> items[i].id]

\* The client asks for the first page of a listing.
StartWalk(r) ==
    /\ pc = "idle"
    /\ walk.phase # "walking"
    /\ r.route = "/videos" /\ Valid(r) /\ r.offset = 0
    /\ walk' = [phase |-> "walking", base |-> r, next |-> 0, acc |-> <<>>,
                prev |-> IF walk.phase = "complete" /\ walk.base = r
                         THEN <<walk.acc>> ELSE <<>>]
    /\ pc' = "received"
    /\ req' = r
    /\ resp' = NoResp
    /\ rows' = <<>>
    /\ dbLog' = <<>>
    /\ conns' = 0
    /\ UNCHANGED <<video, pdf, pdf_video>>

\* The client asks for the page after the ones it has.
NextPage ==
    /\ pc = "idle"
    /\ walk.phase = "walking"
    /\ walk.next > 0
    /\ pc' = "received"
    /\ req' = [walk.base EXCEPT !.offset = walk.next]
    /\ resp' = NoResp
    /\ rows' = <<>>
    /\ dbLog' = <<>>
    /\ conns' = 0
    /\ UNCHANGED <<video, pdf, pdf_video, walk>>

\* The response goes out; a walking client keeps its items and goes on while the
\* next offset is below the total.
Send ==
    /\ pc = "responded"
    /\ walk' = IF walk.phase # "walking" THEN walk
               ELSE IF resp.status # 200 THEN NoWalk
               ELSE [walk EXCEPT
                       !.acc = @ \o Ids(resp.items),
                       !.next = @ + req.limit,
                       !.phase = IF walk.next + req.limit >= resp.total
                                 THEN "complete" ELSE "walking"]
    /\ pc' = "idle"
    /\ req' = NoReq
    /\ resp' = NoResp
    /\ rows' = <<>>
    /\ dbLog' = <<>>
    /\ conns' = 0
    /\ UNCHANGED <<video, pdf, pdf_video>>

----------------------------------------------------------------------------
(* Databases and request sets *)

NameOf(i) ==
    LET names == << <<"a", "b">>, <<"B">>, <<"a", "_">>, <<"%">> >>
    IN  names[((i - 1) % 4) + 1]
StampOf(i) == IF i % 3 = 0 THEN NoStamp ELSE ((i - 1) % 3) + 1
LabelOf(i) == IF i % 2 = 1 THEN Difficile ELSE Facile
PdfNom(i) == <<"a">>

Stamps == {NoStamp} \cup (1..MaxStamp)
Links(nv, np) == SUBSET [id_pdf : 1..np, id_video : 1..nv]
FixedVideos(n) == [i \in 1..n |-> [nom |-> NameOf(i), created_at |-> StampOf(i)]]
FixedPdfs(n) == [i \in 1..n |-> [nom |-> PdfNom(i), difficulte |-> LabelOf(i)]]

LabelRank(l) == CASE l = NULL -> 0 [] l = Empty -> 1 [] l = Difficile -> 2 [] OTHER -> 3

DiffChoices ==
    {<<>>, <<Difficile>>, <<Facile>>, <<Difficile, Facile>>, <<Facile, Difficile>>, <<Empty>>}
LimitChoices == {LimitMin - 1, LimitMin, LimitMin + 1, LimitMax, LimitMax + 1}
OrderChoices == {"asc", "desc", "ASC"}

\* Requests at and beyond the limits of limit, offset and order.
EdgeReqs(Diffs) ==
    VideosReqs({<<>>}, Diffs, LimitChoices, (OffsetMin - 1)..OffsetMin, OrderChoices)
OtherReqs == {HealthReq, DifficultiesReq}

Idle ==
    /\ pc = "idle"
    /\ req = NoReq
    /\ resp = NoResp
    /\ rows = <<>>
    /\ dbLog = <<>>
    /\ conns = 0
    /\ walk = NoWalk

Handle == Reject \/ list_videos \/ list_difficulties \/ health \/ Send

\* Searches and difficulty filters, page by page, over videos linked to pdfs in
\* every way.
Requests ==
    VideosReqs({<<>>, <<" ", "a">>, <<"b", " ">>, <<"_">>},
               {<<>>, <<Difficile>>, <<Difficile, Facile>>, <<Facile, Difficile>>},
               {LimitMin, LimitMin + 1, LimitMax}, OffsetMin..NVideos, {"desc"})
        \cup EdgeReqs({<<>>, <<Facile>>}) \cup OtherReqs

Init ==
    /\ video = FixedVideos(NVideos)
    /\ pdf = FixedPdfs(NPdfs)
    /\ pdf_video \in Links(NVideos, NPdfs)
    /\ Idle

Next == (\E r \in Requests : Receive(r)) \/ Handle

Spec == Init /\ [][Next]_vars

\* Difficulty filters and aggregation over pdfs of every difficulty, null included
\* (pdfs differ in nothing but difficulty and links, so they are taken in label order).
AggRequests ==
    VideosReqs({<<>>}, DiffChoices, {LimitMin, LimitMax}, {OffsetMin}, {"desc"})
        \cup VideosReqs({<<>>}, {<<>>}, {LimitMin - 1}, {OffsetMin}, {"desc"}) \cup OtherReqs

InitAgg ==
    /\ video = FixedVideos(NVideos)
    /\ pdf \in [1..NPdfs -> [nom : {PdfNom(1)}, difficulte : Labels \cup {NULL}]]
    /\ \A i, j \in 1..NPdfs :
          i < j => LabelRank(pdf[i].difficulte) <= LabelRank(pdf[j].difficulte)
    /\ pdf_video \in Links(NVideos, NPdfs)
    /\ Idle

NextAgg == (\E r \in AggRequests : Receive(r)) \/ Handle

SpecAgg == InitAgg /\ [][NextAgg]_vars

\* Orderings over videos with equal, distinct and null creation timestamps.
OrderRequests ==
    VideosReqs({<<>>}, {<<>>}, {LimitMin, LimitMin + 1, LimitMax},
               OffsetMin..(OrderVideos - 1), {"asc", "desc"})
        \cup EdgeReqs({<<>>}) \cup OtherReqs

InitOrder ==
    /\ video \in [1..OrderVideos -> [nom : {NameOf(1)}, created_at : Stamps]]
    /\ pdf = <<>>
    /\ pdf_video = {}
    /\ Idle

NextOrder == (\E r \in OrderRequests : Receive(r)) \/ Handle

SpecOrder == InitOrder /\ [][NextOrder]_vars

\* The difficulty catalogue over pdfs of every difficulty.
CatalogueRequests == EdgeReqs({<<>>}) \cup OtherReqs

InitCatalogue ==
    /\ video = FixedVideos(NVideos)
    /\ pdf \in [1..CataloguePdfs -> [nom : {PdfNom(1)}, difficulte : Labels \cup {NULL}]]
    /\ pdf_video = {}
    /\ Idle

NextCatalogue == (\E r \in CatalogueRequests : Receive(r)) \/ Handle

SpecCatalogue == InitCatalogue /\ [][NextCatalogue]_vars

\* Every search string against every name.
SearchRequests ==
    VideosReqs(TextsUpTo(MaxQLen), {<<>>}, {LimitMin - 1, LimitMax}, {OffsetMin}, {"desc"})
        \cup OtherReqs

InitSearch ==
    /\ video \in [{1} -> [nom : TextsUpTo(MaxNameLen) \ {<<>>}, created_at : {NoStamp}]]
    /\ pdf = <<>>
    /\ pdf_video = {}
    /\ Idle

NextSearch == (\E r \in SearchRequests : Receive(r)) \/ Handle

SpecSearch == InitSearch /\ [][NextSearch]_vars

\* Clients reading a listing page by page, again and again.
WalkRequests ==
    VideosReqs({<<>>}, {<<>>}, {LimitMin, LimitMin + 1}, {OffsetMin}, {"asc", "desc"})
PagingRequests ==
    VideosReqs({<<>>}, {<<>>}, {LimitMin - 1, LimitMax}, {OffsetMin}, {"desc"}) \cup OtherReqs

InitPaging ==
    /\ video \in [1..WalkVideos -> [nom : {NameOf(1)}, created_at : Stamps]]
    /\ pdf = <<>>
    /\ pdf_video = {}
    /\ Idle

NextPaging ==
    \/ \E r \in WalkRequests : StartWalk(r)
    \/ NextPage
    \/ \E r \in PagingRequests : Receive(r)
    \/ Handle

SpecPaging == InitPaging /\ [][NextPaging]_vars

----------------------------------------------------------------------------
(* Properties *)

Linked(v) == {l.id_pdf : l \in {k \in pdf_video : k.id_video = v}}
NoDuplicates(s) == \A i, j \in 1..Len(s) : i # j => s[i] # s[j]
RECURSIVE SumCounts(_)
SumCounts(s) == IF s = <<>> THEN 0 ELSE Head(s).count + SumCounts(Tail(s))

\* name contains q as a case-insensitive substring
ContainsCI(name, q) ==
    \E i \in 0..(Len(name) - Len(q)) :
        \A j \in 1..Len(q) : Lower(name[i + j]) = Lower(q[j])

\* Video v passes the filters of a request as the database applies them.
Satisfies(v, r) ==
    /\ Strip(r.q) = <<>> \/ ILike(video[v].nom, <<"%">> \o Strip(r.q) \o <<"%">>)
    /\ r.diff = <<>> \/ \E p \in Linked(v) : pdf[p].difficulte \in Range(r.diff)
Matching(r) == {v \in DOMAIN video : Satisfies(v, r)}

\* A valid /videos request has been handled.
Listed == pc = "responded" /\ req.route = "/videos" /\ Valid(req)
Returned == Listed /\ resp.status = 200

\* C1: the pages at offsets 0, L, 2L, ... of a fixed listing together hold every
\* matching video exactly once, and their concatenation is the same sequence on
\* every walk.
C1_PagesCoverOnceStable ==
    walk.phase = "complete" =>
        /\ NoDuplicates(walk.acc)
        /\ Range(walk.acc) = Matching(walk.base)
        /\ walk.prev # <<>> => walk.prev[1] = walk.acc

\* C2: with q non-empty after trimming, every returned video's name contains the
\* trimmed q as a case-insensitive substring.
C2_NameContainsQ ==
    (Returned /\ Strip(req.q) # <<>>) =>
        \A i \in 1..Len(resp.items) : ContainsCI(resp.items[i].nom, Strip(req.q))

\* C3: with a non-empty diff, the videos that pass the filter are exactly those
\* with at least one linked pdf whose difficulty is one of the listed labels.
C3_DiffFilterAnyLinked ==
    (Listed /\ req.diff # <<>> /\ Strip(req.q) = <<>>) =>
        /\ \A i \in 1..Len(rows) :
              \E p \in Linked(rows[i].id) : pdf[p].difficulte \in Range(req.diff)
        /\ (req.offset = 0 /\ req.limit >= Cardinality(DOMAIN video)) =>
              \A v \in DOMAIN video :
                  (\E p \in Linked(v) : pdf[p].difficulte \in Range(req.diff))
                      => \E i \in 1..Len(rows) : rows[i].id = v

C3_Witness ==
    /\ Returned
    /\ req.diff = <<Difficile, Facile>>
    /\ \E i \in 1..Len(resp.items) :
          {pdf[p].difficulte : p \in Linked(resp.items[i].id)} = {Difficile, Facile}

\* C4: the difficulties of every video of the page are exactly the distinct
\* non-null difficulty labels of its linked pdfs, with no null element.
C4_DifficultiesNonNull ==
    Listed =>
        \A i \in 1..Len(rows) :
            /\ NULL \notin rows[i].difficulties.val
            /\ rows[i].difficulties.val =
                  {pdf[p].difficulte : p \in Linked(rows[i].id)} \ {NULL}

\* C5: total is the number of distinct videos that pass the q and diff filters,
\* whatever limit and offset are, and at most limit items are returned.
C5_TotalDistinctMatching ==
    Returned =>
        /\ resp.total = Cardinality(Matching([req EXCEPT !.limit = LimitDefault,
                                                         !.offset = OffsetDefault]))
        /\ Len(resp.items) <= req.limit

C5_Witness ==
    /\ Returned
    /\ req.diff = <<Difficile, Facile>>
    /\ \A v \in DOMAIN video : Cardinality(Linked(v)) >= 2
    /\ req.limit = LimitMin
    /\ req.offset > 0
    /\ resp.total = Cardinality(DOMAIN video)
    /\ Len(resp.items) = 1

\* C6: a video with no linked pdf has difficulties [] and pdfs [], neither null
\* nor holding a null element.
C6_NoPdfEmptyLists ==
    Listed =>
        \A i \in 1..Len(rows) :
            Linked(rows[i].id) = {} =>
                /\ rows[i].difficulties = [isnull |-> FALSE, val |-> {}]
                /\ rows[i].pdfs = [isnull |-> FALSE, val |-> {}]

C6_Witness ==
    /\ Returned
    /\ \E i \in 1..Len(resp.items) :
          /\ Linked(resp.items[i].id) = {}
          /\ resp.items[i].difficulties.val = {}
          /\ resp.items[i].pdfs.val = {}
    /\ \E i \in 1..Len(resp.items) : Linked(resp.items[i].id) # {}

\* C7: a /videos request with limit outside [1, 200], a negative offset or an
\* order other than asc and desc is answered 422 with no statement executed and no
\* pool connection acquired.
C7_InvalidNeverReachesDb ==
    (/\ req.route = "/videos"
     /\ \/ req.limit < 1
        \/ req.limit > 200
        \/ req.offset < 0
        \/ req.order \notin {"asc", "desc"})
        => /\ dbLog = <<>>
           /\ conns = 0
           /\ rows = <<>>
           /\ pc = "responded" => resp.status = 422

C7_Witness ==
    /\ pc = "responded"
    /\ req.route = "/videos"
    /\ req.limit = 201
    /\ req.offset >= 0
    /\ req.order = "desc"
    /\ resp.status = 422

\* C8: in every page, for asc and desc alike, no video with a null created_at
\* precedes one with a non-null created_at, and the non-null ones are in
\* non-increasing (desc) or non-decreasing (asc) order.
C8_NullsLastSorted ==
    Listed =>
        \A i, j \in 1..Len(rows) :
            i < j =>
                /\ ~(rows[i].created_at = NoStamp /\ rows[j].created_at # NoStamp)
                /\ (rows[i].created_at # NoStamp /\ rows[j].created_at # NoStamp) =>
                      IF req.order = "desc"
                      THEN rows[i].created_at >= rows[j].created_at
                      ELSE rows[i].created_at <= rows[j].created_at

C8_Witness ==
    /\ Returned
    /\ req.order = "desc"
    /\ Len(resp.items) = Cardinality(DOMAIN video)
    /\ resp.items[1].created_at > resp.items[2].created_at
    /\ resp.items[2].created_at # NoStamp
    /\ resp.items[Len(resp.items)].created_at = NoStamp

\* C9: /difficulties has one entry per distinct label after null is replaced by
\* the empty string, with the number of pdfs of that label, sorted by label
\* ascending; the counts sum to the number of pdfs.
C9_CatalogueGroupsNormalized ==
    (pc = "responded" /\ req.route = "/difficulties") =>
        LET norm(p) == IF pdf[p].difficulte = NULL THEN <<>> ELSE pdf[p].difficulte
            b == resp.body
        IN  /\ resp.status = 200
            /\ {b[i].difficulte : i \in 1..Len(b)} = {norm(p) : p \in DOMAIN pdf}
            /\ \A i, j \in 1..Len(b) : i < j => TextLess(b[i].difficulte, b[j].difficulte)
            /\ \A i \in 1..Len(b) :
                  b[i].count = Cardinality({p \in DOMAIN pdf : norm(p) = b[i].difficulte})
            /\ SumCounts(b) = Cardinality(DOMAIN pdf)

C9_Witness ==
    /\ pc = "responded"
    /\ req.route = "/difficulties"
    /\ \E p \in DOMAIN pdf : pdf[p].difficulte = NULL
    /\ \E p \in DOMAIN pdf : pdf[p].difficulte = Empty
    /\ resp.body = <<[difficulte |-> Empty, count |-> 2], [difficulte |-> Facile, count |-> 2]>>

\* C10: _where gives no clause and no parameters when q and diffs are empty;
\* otherwise a clause that starts with WHERE and joins its conditions by AND, with
\* the q pattern first and then diffs in their order as parameters, one per
\* placeholder; the page statement binds these, then limit, then offset.
C10_WhereClauseAndParams ==
    Listed =>
        LET q == Strip(req.q)
            where_sql == Tail(dbLog[1].sql)
            params == dbLog[1].params
            conds == (IF q # <<>> THEN 1 ELSE 0) + (IF req.diff # <<>> THEN 1 ELSE 0)
            count(tok) == Cardinality({i \in 1..Len(where_sql) : where_sql[i] = tok})
        IN  /\ Len(dbLog) = 2
            /\ params = (IF q # <<>> THEN << <<"%">> \o q \o <<"%">> >> ELSE <<>>) \o req.diff
            /\ conds = 0 => where_sql = <<>> /\ params = <<>>
            /\ conds > 0 =>
                  /\ where_sql[1] = "WHERE"
                  /\ count("WHERE") = 1
                  /\ count(NameClause[1]) = (IF q # <<>> THEN 1 ELSE 0)
                  /\ count(ExistsOpen) = (IF req.diff # <<>> THEN 1 ELSE 0)
                  /\ count("AND") = conds - 1
                  /\ (conds = 2) => where_sql[4] = "AND"
            /\ count("%s") = Len(params)
            /\ dbLog[2].params = params \o <<req.limit, req.offset>>
            /\ NumPlaceholders(dbLog[2].sql) = Len(dbLog[2].params)
            /\ SubSeq(dbLog[2].sql, 2, Len(where_sql) + 1) = where_sql

C10_Witness ==
    /\ Returned
    /\ Strip(req.q) = <<"a">>
    /\ req.q # Strip(req.q)
    /\ req.diff = <<Facile, Difficile>>
    /\ dbLog[2].params = << <<"%", "a", "%">>, Facile, Difficile, req.limit, req.offset >>
    /\ Len(resp.items) > 0

====
